---- MODULE Spec2Model ----
(***************************************************************************)
(* Model of the type-system adapters of the repository:                    *)
(*   src/odo/backends/sparksql.py  datashape <-> SparkSQL schema, append   *)
(*   src/kdbpy/compute/qtable.py   q type codes, tables(), table layout    *)
(***************************************************************************)
EXTENDS Integers, Sequences, FiniteSets, TLC

VARIABLES
    pc, op, arg, res, res2,     \* a conversion of sparksql.py: its argument and results
    kdb, tabs,                  \* the q store's tables and the result of tables(kdb)
    target, cls,                \* a table handle and the answers of is_partitioned, ...
    names_next, registered,     \* the _names generator and each SQLContext's tables
    generated, last             \* the names _names gave out and the last append made

shapeVars == <<pc, op, arg, res, res2>>

kdbVars == <<kdb, tabs>>

layoutVars == <<target, cls>>

appendVars == <<names_next, registered, generated, last>>

vars == <<shapeVars, kdbVars, layoutVars, appendVars>>

(***************************************************************************)
(* Bounds of the model.                                                    *)
(***************************************************************************)
MaxFields == 2
MaxDims == 2
MaxOption == 2

(***************************************************************************)
(* Values.  A shape type (datashape Mono) is a record tagged by k:         *)
(*   scalar(name)  option(ty)  record(fields)  tuple(dshapes)              *)
(*   datashape(parameters)  fixed(val)  var  str(parsed)                   *)
(* A str is a Python string argument, given by the DataShape its text      *)
(* parses to.  A schema type is a record tagged by k: leaf(name),          *)
(* ArrayType(elementType, containsNull), StructType(fields).               *)
(***************************************************************************)
NoVal == [k |-> "none"]

Ok(v) == [ok |-> TRUE, val |-> v, err |-> "none"]

Err(e) == [ok |-> FALSE, val |-> NoVal, err |-> e]

Scalar(n) == [k |-> "scalar", name |-> n]

Fixed(n) == [k |-> "fixed", val |-> n]

Var == [k |-> "var"]

IsDimension(x) == x.k \in {"fixed", "var"}

\* datashape's _launder: a DataShape of one parameter stands for that parameter
Launder(x) == IF x.k = "datashape" /\ Len(x.parameters) = 1 THEN x.parameters[1] ELSE x

Option(t) == [k |-> "option", ty |-> Launder(t)]

Record(fs) == [k |-> "record", fields |-> [i \in 1..Len(fs) |-> <<fs[i][1], Launder(fs[i][2])>>]]

Tuple(ds) == [k |-> "tuple", dshapes |-> ds]

DataShape(ps) == [k |-> "datashape", parameters |-> ps]

\* datashape.dshape(o): a Mono that is no DataShape is wrapped in one
Dshape(x) == IF x.k = "datashape" THEN x ELSE DataShape(<<x>>)

Str(x) == [k |-> "str", parsed |-> Dshape(x)]

\* datashape.var * x
VarTimes(x) == IF x.k = "datashape" THEN DataShape(<<Var>> \o x.parameters) ELSE DataShape(<<Var, x>>)

Leaf(n) == [k |-> "leaf", name |-> n]

StructField(n, t, nl) == [name |-> n, dataType |-> t, nullable |-> nl]

StructType(fs) == [k |-> "StructType", fields |-> fs]

ArrayType(t, cn) == [k |-> "ArrayType", elementType |-> t, containsNull |-> cn]

(***************************************************************************)
(* The two lookup tables of sparksql.py, as sets of <<key, value>> pairs.  *)
(***************************************************************************)
sparksql_to_dshape ==
    { <<"ByteType", "int8">>, <<"ShortType", "int16">>, <<"IntegerType", "int32">>,
      <<"LongType", "int64">>, <<"FloatType", "float32">>, <<"DoubleType", "float64">>,
      <<"StringType", "string">>, <<"BinaryType", "bytes">>, <<"BooleanType", "bool">>,
      <<"TimestampType", "datetime">>, <<"DateType", "date">> }

dshape_to_sparksql ==
    { <<"int16", "ShortType">>, <<"int32", "IntegerType">>, <<"int64", "LongType">>,
      <<"float32", "FloatType">>, <<"float64", "DoubleType">>, <<"real", "DoubleType">>,
      <<"time", "TimestampType">>, <<"date", "DateType">>, <<"datetime", "TimestampType">>,
      <<"bool", "BooleanType">>, <<"string", "StringType">> }

Keys(table) == {p[1] : p \in table}

Lookup(table, key) == (CHOOSE p \in table : p[1] = key)[2]

(***************************************************************************)
(* deoption                                                                *)
(***************************************************************************)
RECURSIVE deoption(_)
deoption(ds0) ==
    LET ds == IF ds0.k = "str" THEN ds0.parsed ELSE ds0
    IN  IF ds.k = "datashape" /\ ~IsDimension(ds.parameters[1])
        THEN deoption(ds.parameters[1])
        ELSE IF ds.k = "option" THEN ds.ty ELSE ds

(***************************************************************************)
(* dshape_to_schema                                                        *)
(***************************************************************************)
\* a bug that would test the field type after deoption
FieldNullableAfterDeoption(typ) == deoption(typ).k = "option"

\* line 106: the field's nullable flag
FieldNullable(typ) == typ.k = "option"

\* a bug that would leave the element wrapped in its DataShape
ArrayElemStillWrapped(ds) == DataShape(SubSeq(ds.parameters, 2, Len(ds.parameters)))

\* lines 110-112: the element of a dimensional DataShape
ArrayElem(ds) ==
    LET elem == DataShape(SubSeq(ds.parameters, 2, Len(ds.parameters)))
    IN  IF elem.k = "datashape" /\ Len(elem.parameters) = 1 THEN elem.parameters[1] ELSE elem

\* line 114: the array's containsNull flag
ArrayContainsNull(elem) == elem.k = "option"

\* the first failing result of a comprehension, in evaluation order
FirstErr(rs) == rs[CHOOSE i \in 1..Len(rs) : ~rs[i].ok /\ \A j \in 1..(i - 1) : rs[j].ok]

\* a bug that would take a Tuple for a record of unnamed columns
TupleRejectedAsStruct(ds) == Ok(StructType(<<>>))

\* lines 99-101: a Tuple is refused
TupleRejected(ds) == Err("TypeError")

RECURSIVE dshape_to_schema(_)
dshape_to_schema(ds) ==
    IF ds.k = "str" THEN dshape_to_schema(ds.parsed)
    ELSE IF ds.k = "tuple" THEN TupleRejected(ds)
    ELSE IF ds.k = "record" THEN
        LET rs == [i \in 1..Len(ds.fields) |-> dshape_to_schema(deoption(ds.fields[i][2]))]
        IN  IF \E i \in 1..Len(rs) : ~rs[i].ok
            THEN FirstErr(rs)
            ELSE Ok(StructType([i \in 1..Len(rs) |->
                        StructField(ds.fields[i][1], rs[i].val, FieldNullable(ds.fields[i][2]))]))
    ELSE IF ds.k = "datashape" THEN
        IF IsDimension(ds.parameters[1])
        THEN LET elem == ArrayElem(ds)
                 r == dshape_to_schema(deoption(elem))
             IN  IF r.ok THEN Ok(ArrayType(r.val, ArrayContainsNull(elem))) ELSE r
        ELSE dshape_to_schema(ds.parameters[1])
    ELSE IF ds.k = "scalar" /\ ds.name \in Keys(dshape_to_sparksql)
        THEN Ok(Leaf(Lookup(dshape_to_sparksql, ds.name)))
    ELSE Err("NotImplementedError")

(***************************************************************************)
(* schema_to_dshape                                                        *)
(***************************************************************************)
\* lines 132-133 and 135-136: Option(...) if the flag is set
OptionIf(flag, d) == IF flag THEN Option(d) ELSE d

RECURSIVE schema_to_dshape(_)
schema_to_dshape(schema) ==
    IF schema.k = "leaf" /\ schema.name \in Keys(sparksql_to_dshape)
    THEN Ok(Scalar(Lookup(sparksql_to_dshape, schema.name)))
    ELSE IF schema.k = "ArrayType" THEN
        LET r == schema_to_dshape(schema.elementType)
        IN  IF r.ok THEN Ok(VarTimes(OptionIf(schema.containsNull, r.val))) ELSE r
    ELSE IF schema.k = "StructType" THEN
        LET rs == [i \in 1..Len(schema.fields) |-> schema_to_dshape(schema.fields[i].dataType)]
        IN  IF \E i \in 1..Len(rs) : ~rs[i].ok
            THEN FirstErr(rs)
            ELSE Ok(Dshape(Record([i \in 1..Len(rs) |->
                        <<schema.fields[i].name, OptionIf(schema.fields[i].nullable, rs[i].val)>>])))
    ELSE Err("NotImplementedError")

\* the docstring's example: {name: string, amount: ?int32} and its schema
ExampleRecord ==
    Record(<< <<"name", Scalar("string")>>, <<"amount", Option(Scalar("int32"))>> >>)

ExampleStruct ==
    StructType(<< StructField("name", Leaf("StringType"), FALSE),
                  StructField("amount", Leaf("IntegerType"), TRUE) >>)

(***************************************************************************)
(* The shapes and schemas the operations are applied to.                   *)
(***************************************************************************)
ClaimScalars ==
    {"int8", "int16", "int32", "int64", "float32", "float64", "string", "bytes",
     "bool", "datetime", "date"}

ScalarNames == ClaimScalars \cup {"real", "time", "null"}

FieldNamePool == <<"name", "amount", "id", "when">>

FieldNames == {FieldNamePool[i] : i \in 1..MaxFields}

NameSeqs(n) == {s \in [1..n -> FieldNames] : \A i, j \in 1..n : s[i] = s[j] => i = j}

\* records of n fields with distinct names: the first field's type from T1, the others' from T
Records(T1, T, n) ==
    {Record([i \in 1..n |-> <<ns[i], ts[i]>>]) :
        ns \in NameSeqs(n), ts \in {t \in [1..n -> T1 \cup T] : \A i \in 2..n : t[i] \in T}}

RECURSIVE OptNest(_, _)
OptNest(n, x) == IF n = 0 THEN x ELSE Option(OptNest(n - 1, x))

Opts(X) == {OptNest(n, x) : n \in 1..MaxOption, x \in X}

Scalars == {Scalar(n) : n \in ScalarNames}

TupleElems == {Scalar("int32"), Scalar("string")}

Tuples == UNION {{Tuple(t) : t \in [1..n -> TupleElems]} : n \in 1..MaxFields}

\* the records of claim C1: every field a representable scalar, plain or optional
ScalarFieldTypes == {Scalar(n) : n \in ClaimScalars} \cup {Option(Scalar(n)) : n \in ClaimScalars}

OtherFieldTypes == {Scalar("string"), Option(Scalar("int32")), Scalar("int8"), Option(Scalar("date"))}

ScalarRecords == UNION {Records(ScalarFieldTypes, OtherFieldTypes, n) : n \in 1..MaxFields}

\* the docstring's records
ExampleRecords ==
    { Record(<< <<"name", Scalar("string")>>, <<"amount", Scalar("int32")>> >>),
      Record(<< <<"name", Scalar("string")>>, <<"amount", Option(Scalar("int32"))>> >>),
      Record(<< <<"amount", Scalar("int8")>> >>) }

MixedFieldTypes ==
    { Scalar("real"), Scalar("null"),
      Tuple(<<Scalar("int32"), Scalar("string")>>),
      Option(Tuple(<<Scalar("int32")>>)),
      Option(Option(Scalar("int32"))),
      DataShape(<<Var, Scalar("int32")>>),
      Option(DataShape(<<Fixed(5), Option(Scalar("string"))>>)),
      Record(<< <<"x", Option(Scalar("int64"))>> >>) }

MixedOtherTypes == {Scalar("int32"), Option(Scalar("string")), Tuple(<<Scalar("int32")>>)}

MixedRecords == UNION {Records(MixedFieldTypes, MixedOtherTypes, n) : n \in 1..MaxFields}

Measures == Scalars \cup Tuples \cup MixedRecords \cup ExampleRecords

OptMeasures ==
    Opts(Scalars \cup Tuples \cup ExampleRecords
         \cup {DataShape(<<Var, Scalar("int32")>>), DataShape(<<Fixed(5), Option(Scalar("string"))>>)})

DimSeqs == UNION {[1..n -> {Fixed(5), Var}] : n \in 1..MaxDims}

Dimensional ==
    {DataShape(d \o <<m>>) : d \in DimSeqs, m \in Scalars \cup Tuples \cup ExampleRecords \cup OptMeasures}

Wrapped == {DataShape(<<m>>) : m \in Scalars \cup Tuples \cup ExampleRecords \cup OptMeasures}

Strs ==
    {Str(x) : x \in ExampleRecords \cup
        { Scalar("int32"), Option(Scalar("int32")),
          DataShape(<<Fixed(5), Scalar("int32")>>),
          DataShape(<<Fixed(5), Option(Scalar("int32"))>>),
          DataShape(<<Fixed(10), Record(<< <<"name", Scalar("string")>>,
                                          <<"amount", Option(Scalar("int32"))>> >>)>>) }}

ShapeInputs ==
    ScalarRecords \cup Measures \cup OptMeasures \cup Wrapped \cup Dimensional \cup Strs

Leaves == {Leaf(p[1]) : p \in sparksql_to_dshape} \cup {Leaf("MapType")}

SchemaInputs ==
    Leaves
    \cup {ArrayType(l, cn) : l \in Leaves, cn \in BOOLEAN}
    \cup {ArrayType(ArrayType(l, cn), cn2) : l \in {Leaf("IntegerType")}, cn \in BOOLEAN, cn2 \in BOOLEAN}
    \cup {StructType(<<StructField("name", l, nl)>>) : l \in Leaves, nl \in BOOLEAN}
    \cup {ArrayType(StructType(<<StructField("name", Leaf("StringType"), nl)>>), cn) :
              nl \in BOOLEAN, cn \in BOOLEAN}

IsShape(x) == x.k \in {"scalar", "option", "record", "tuple", "datashape", "str"}

(***************************************************************************)
(* Conversions: the input is drawn at the start, the actions apply the     *)
(* functions of sparksql.py to it.                                         *)
(***************************************************************************)
StartShape ==
    /\ pc = "start"
    /\ op = "none"
    /\ arg \in ShapeInputs \cup SchemaInputs
    /\ res = Err("none")
    /\ res2 = Err("none")

\* dshape_to_schema(arg)
DshapeToSchemaCall ==
    /\ pc = "start"
    /\ IsShape(arg)
    /\ pc' = "converted"
    /\ op' = "dshape_to_schema"
    /\ res' = dshape_to_schema(arg)
    /\ UNCHANGED <<arg, res2, kdbVars, layoutVars, appendVars>>

\* discover_spark_data_frame's schema_to_dshape(df.schema) on the schema just made
SchemaToDshapeBack ==
    /\ pc = "converted"
    /\ res.ok
    /\ pc' = "roundtrip"
    /\ res2' = schema_to_dshape(res.val)
    /\ UNCHANGED <<op, arg, res, kdbVars, layoutVars, appendVars>>

\* schema_to_dshape(arg)
SchemaToDshapeCall ==
    /\ pc = "start"
    /\ ~IsShape(arg)
    /\ pc' = "discovered"
    /\ op' = "schema_to_dshape"
    /\ res' = schema_to_dshape(arg)
    /\ UNCHANGED <<arg, res2, kdbVars, layoutVars, appendVars>>

\* deoption(arg)
DeoptionCall ==
    /\ pc = "start"
    /\ IsShape(arg)
    /\ pc' = "deoptioned"
    /\ op' = "deoption"
    /\ res' = Ok(deoption(arg))
    /\ UNCHANGED <<arg, res2, kdbVars, layoutVars, appendVars>>

\* deoption applied to the result of deoption
DeoptionAgain ==
    /\ pc = "deoptioned"
    /\ pc' = "deoptioned2"
    /\ res2' = Ok(deoption(res.val))
    /\ UNCHANGED <<op, arg, res, kdbVars, layoutVars, appendVars>>

NextShape ==
    \/ DshapeToSchemaCall
    \/ SchemaToDshapeBack
    \/ SchemaToDshapeCall
    \/ DeoptionCall
    \/ DeoptionAgain

(***************************************************************************)
(* qtable.py: the q type codes.                                            *)
(***************************************************************************)
TimeDelta(u) == [k |-> "timedelta", unit |-> u]

qtypes ==
    { <<"b", Scalar("bool")>>, <<"x", Scalar("int8")>>, <<"h", Scalar("int16")>>,
      <<"i", Scalar("int32")>>, <<"j", Scalar("int64")>>, <<"e", Scalar("float32")>>,
      <<"f", Scalar("float64")>>, <<"c", Scalar("string")>>, <<"s", Scalar("string")>>,
      <<"m", Scalar("date")>>, <<"d", Scalar("date")>>, <<"z", Scalar("datetime")>>,
      <<"p", Scalar("datetime")>>, <<"u", TimeDelta("m")>>, <<"v", TimeDelta("s")>>,
      <<"n", TimeDelta("ns")>>, <<"t", TimeDelta("ms")>>, <<"", Scalar("null")>> }

\* str.lower on a one-character string
UpperLower ==
    { <<"A", "a">>, <<"B", "b">>, <<"C", "c">>, <<"D", "d">>, <<"E", "e">>, <<"F", "f">>,
      <<"G", "g">>, <<"H", "h">>, <<"I", "i">>, <<"J", "j">>, <<"K", "k">>, <<"L", "l">>,
      <<"M", "m">>, <<"N", "n">>, <<"O", "o">>, <<"P", "p">>, <<"Q", "q">>, <<"R", "r">>,
      <<"S", "s">>, <<"T", "t">>, <<"U", "u">>, <<"V", "v">>, <<"W", "w">>, <<"X", "x">>,
      <<"Y", "y">>, <<"Z", "z">> }

Lower(c) == IF c \in Keys(UpperLower) THEN Lookup(UpperLower, c) ELSE c

\* a missing entry of the meta table's t column (pandas NaN)
NaN == "<NaN>"

\* Series.fillna('')
Fillna(c) == IF c = NaN THEN "" ELSE c

\* a bug that would answer an unknown code with a default type
CodeToShapeWithDefault(c) ==
    LET key == Lower(Fillna(c))
    IN  IF key \in Keys(qtypes) THEN Ok(Lookup(qtypes, key)) ELSE Ok(Scalar("null"))

\* line 54: qtypes[t.lower()] for t in meta.t.fillna('')
CodeToShape(c) ==
    LET key == Lower(Fillna(c))
    IN  IF key \in Keys(qtypes) THEN Ok(Lookup(qtypes, key)) ELSE Err("KeyError")

(***************************************************************************)
(* qtable.py: tables(kdb).  The store is the sequence of its tables, each  *)
(* a name and the rows (column c, type code t) of its meta table.          *)
(***************************************************************************)
MinOf(a, b) == IF a < b THEN a ELSE b

Zip(xs, ys) == [i \in 1..MinOf(Len(xs), Len(ys)) |-> <<xs[i], ys[i]>>]

Symbol(n, ds) == [name |-> n, dshape |-> ds]

\* OrderedDict(pairs): a key seen again keeps its place and takes the new value
RECURSIVE OrderedDict(_)
OrderedDict(pairs) ==
    IF Len(pairs) = 0 THEN <<>>
    ELSE LET front == OrderedDict(SubSeq(pairs, 1, Len(pairs) - 1))
             p == pairs[Len(pairs)]
         IN  IF \E i \in 1..Len(front) : front[i][1] = p[1]
             THEN [i \in 1..Len(front) |-> IF front[i][1] = p[1] THEN p ELSE front[i]]
             ELSE Append(front, p)

\* a bug that would hand the handles over in reverse
SymsReversed(syms) == OrderedDict([i \in 1..Len(syms) |-> syms[Len(syms) + 1 - i]])

\* line 58: Tables(syms)
Tables(syms) == OrderedDict(syms)

\* lines 54-57: one table's handle
TableSym(name, meta) ==
    LET types == [i \in 1..Len(meta) |-> CodeToShape(meta[i].t)]
        columns == [i \in 1..Len(meta) |-> meta[i].c]
    IN  IF \E i \in 1..Len(types) : ~types[i].ok
        THEN FirstErr(types)
        ELSE Ok(<<name, Symbol(name, VarTimes(Record(Zip(columns, [i \in 1..Len(types) |-> types[i].val]))))>>)

tables(conn) ==
    LET names == [i \in 1..Len(conn) |-> conn[i].name]
        metadata == [i \in 1..Len(conn) |-> conn[i].meta]
        pairs == Zip(names, metadata)
        syms == [i \in 1..Len(pairs) |-> TableSym(pairs[i][1], pairs[i][2])]
    IN  IF \E i \in 1..Len(syms) : ~syms[i].ok
        THEN FirstErr(syms)
        ELSE Ok(Tables([i \in 1..Len(syms) |-> syms[i].val]))

MaxTables == 2
MaxCols == 2

TableNamePool == <<"trade", "quote", "daily">>

ColumnNamePool == <<"sym", "price", "size">>

ValidCodes == Keys(qtypes)

UpperCodes == {p[1] : p \in {q \in UpperLower : q[2] \in ValidCodes}}

UnknownCodes == {"g", "G", "q", " ", "0"}

AllCodes == ValidCodes \cup UpperCodes \cup UnknownCodes \cup {NaN}

FirstCodes == {"j", "g"}

OtherCodes == {NaN, "S"}

Injective(s, n) == \A i, j \in 1..n : s[i] = s[j] => i = j

\* meta tables of n columns: the first column's code from C1, the others' from C
Metas(C1, C, n) ==
    {[i \in 1..n |-> [c |-> cs[i], t |-> ts[i]]] :
        cs \in {s \in [1..n -> {ColumnNamePool[i] : i \in 1..MaxCols}] : Injective(s, n)},
        ts \in {t \in [1..n -> C1 \cup C] : \A i \in 2..n : t[i] \in C}}

\* a store of one table, of any code
SingleStores ==
    UNION {{<<[name |-> "trade", meta |-> m]>> : m \in Metas(AllCodes, OtherCodes, n)} : n \in 1..MaxCols}

PlainMetas ==
    UNION {{[i \in 1..n |-> [c |-> ColumnNamePool[i], t |-> ts[i]]] :
               ts \in {t \in [1..n -> FirstCodes \cup OtherCodes] :
                          t[1] \in FirstCodes /\ \A i \in 2..n : t[i] \in OtherCodes}} :
           n \in 1..MaxCols}

\* stores of up to MaxTables tables, enumerated in any order of their names
Stores ==
    UNION {{[i \in 1..n |-> [name |-> ns[i], meta |-> ms[i]]] :
               ns \in {s \in [1..n -> {TableNamePool[i] : i \in 1..MaxTables}] : Injective(s, n)},
               ms \in [1..n -> PlainMetas]} :
           n \in 0..MaxTables}

IdleKdb == kdb = <<>> /\ tabs = Err("none")

StartKdb == kdb \in SingleStores \cup Stores /\ tabs = Err("none")

TablesCall ==
    /\ tabs = Err("none")
    /\ tabs' = tables(kdb)
    /\ UNCHANGED <<kdb, shapeVars, layoutVars, appendVars>>

NextTables == TablesCall

(***************************************************************************)
(* qtable.py: qp and the three layout tests.  A value the store answers    *)
(* with is a Python scalar: bool, int, float (in tenths), str or PyNone.     *)
(***************************************************************************)
PyBool(b) == [t |-> "bool", b |-> b]

PyInteger(n) == [t |-> "int", n |-> n]

PyFloat(x) == [t |-> "float", tenths |-> x]

StrVal(s) == [t |-> "str", s |-> s]

PyNone == [t |-> "none"]

\* int(v)
PyInt(v) ==
    IF v.t = "bool" THEN Ok(PyInteger(IF v.b THEN 1 ELSE 0))
    ELSE IF v.t = "int" THEN Ok(v)
    ELSE IF v.t = "float"
        THEN Ok(PyInteger(IF v.tenths >= 0 THEN v.tenths \div 10 ELSE -((-v.tenths) \div 10)))
    ELSE IF v.t = "str"
        THEN (IF v.s = "0" THEN Ok(PyInteger(0)) ELSE IF v.s = "1" THEN Ok(PyInteger(1)) ELSE Err("ValueError"))
    ELSE Err("TypeError")

\* lines 62-65: t is an Expr, an object with a data attribute, or the table itself
qp(t) ==
    LET computed == IF t.form = "expr" THEN [form |-> "data", answer |-> t.answer] ELSE t
        table == IF computed.form = "data" THEN [form |-> "qtable", answer |-> computed.answer] ELSE computed
    IN  table.answer

\* line 69: qp(t) is True
is_partitioned(t) == Ok(PyBool(qp(t) = PyBool(TRUE)))

\* line 73: qp(t) is False
is_splayed(t) == Ok(PyBool(qp(t) = PyBool(FALSE)))

\* line 77: int(qp(t)) is 0; CPython keeps one object for the int 0
is_standard(t) ==
    LET n == PyInt(qp(t))
    IN  IF n.ok THEN Ok(PyBool(n.val = PyInteger(0))) ELSE n

MaxQp == 2

QpValues ==
    {PyBool(TRUE), PyBool(FALSE), PyNone, StrVal("0"), StrVal("abc")}
    \cup {PyInteger(n) : n \in (-MaxQp)..MaxQp}
    \cup {PyFloat(x) : x \in {-5, 0, 5, 15}}

Targets == {[form |-> f, answer |-> v] : f \in {"expr", "data", "qtable"}, v \in QpValues}

Unset == Err("none")

NoTarget == [form |-> "qtable", answer |-> PyNone]

IdleLayout ==
    /\ target = NoTarget
    /\ cls = [is_partitioned |-> Unset, is_splayed |-> Unset, is_standard |-> Unset]

StartLayout ==
    /\ target \in Targets
    /\ cls = [is_partitioned |-> Unset, is_splayed |-> Unset, is_standard |-> Unset]

IsPartitionedCall ==
    /\ cls.is_partitioned = Unset
    /\ cls' = [cls EXCEPT !.is_partitioned = is_partitioned(target)]
    /\ UNCHANGED <<target, shapeVars, kdbVars, appendVars>>

IsSplayedCall ==
    /\ cls.is_splayed = Unset
    /\ cls' = [cls EXCEPT !.is_splayed = is_splayed(target)]
    /\ UNCHANGED <<target, shapeVars, kdbVars, appendVars>>

IsStandardCall ==
    /\ cls.is_standard = Unset
    /\ cls' = [cls EXCEPT !.is_standard = is_standard(target)]
    /\ UNCHANGED <<target, shapeVars, kdbVars, appendVars>>

NextLayout ==
    \/ IsPartitionedCall
    \/ IsSplayedCall
    \/ IsStandardCall

(***************************************************************************)
(* sparksql.py: the appends to a SQLContext and the _names generator.      *)
(***************************************************************************)
MaxNames == 3

Contexts == {"ctx1", "ctx2"}

NoName == [k |-> "none"]

StrName(n) == [k |-> "str", s |-> n]

NameArgs == {NoName, StrName(""), StrName("tmp1")}

\* the truth value of the name argument in "name or next(_names)"
Truthy(name) == name.k = "str" /\ name.s # ""

\* a bug that would start the count again for each name
AdvanceRestarted(n) == 0

\* line 31: itertools.count() steps by one
Advance(n) == n + 1

\* line 31: 'tmp%d' % i
TmpName(i) == "tmp" \o ToString(i)

DshapeArgs ==
    { NoVal,
      DataShape(<<Var, ExampleRecord>>),
      DataShape(<<Var, Tuple(<<Scalar("int32"), Scalar("string")>>)>>) }

SchemaArgs == {NoVal, ExampleStruct}

Inferred == [k |-> "inferred"]

\* datashape's measure and isrecord
MeasureOf(x) == IF x.k = "datashape" THEN x.parameters[Len(x.parameters)] ELSE x

IsRecord(x) == Launder(x).k = "record"

\* registerDataFrameAsTable: a table of that name is replaced
Register(tbls, name, schema) == {p \in tbls : p[1] # name} \cup {<<name, schema>>}

IdleAppend ==
    /\ names_next = 0
    /\ registered = [c \in Contexts |-> {}]
    /\ generated = <<>>
    /\ last = [op |-> "none", named |-> FALSE, ok |-> FALSE, before |-> 0]

\* lines 48 and 64: registerDataFrameAsTable(df, name or next(_names))
RegisterAs(callee, ctx, name, schema) ==
    LET tname == IF Truthy(name) THEN name.s ELSE TmpName(names_next)
    IN  /\ registered' = [registered EXCEPT ![ctx] = Register(@, tname, schema)]
        /\ names_next' = IF Truthy(name) THEN names_next ELSE Advance(names_next)
        /\ generated' = IF Truthy(name) THEN generated
                        ELSE Append(generated, [name |-> tname, op |-> callee])
        /\ last' = [op |-> callee, named |-> Truthy(name), ok |-> TRUE, before |-> names_next]

Raised(callee, name) ==
    /\ last' = [op |-> callee, named |-> Truthy(name), ok |-> FALSE, before |-> names_next]
    /\ UNCHANGED <<names_next, registered, generated>>

JsonlinesToSparksql(ctx, dshape, name, schema) ==
    /\ Truthy(name) \/ names_next < MaxNames
    /\ LET conv == IF dshape # NoVal /\ schema = NoVal
                   THEN dshape_to_schema(IF IsRecord(MeasureOf(dshape)) THEN MeasureOf(dshape) ELSE dshape)
                   ELSE Ok(schema)
       IN  IF conv.ok
           THEN RegisterAs("jsonlines_to_sparksql", ctx, name,
                           IF conv.val = NoVal THEN Inferred ELSE conv.val)
           ELSE Raised("jsonlines_to_sparksql", name)
    /\ UNCHANGED <<shapeVars, kdbVars, layoutVars>>

RddToSqlcontext(ctx, dshape, name) ==
    /\ Truthy(name) \/ names_next < MaxNames
    /\ IF dshape = NoVal
       THEN Raised("rdd_to_sqlcontext", name)
       ELSE LET ds == IF dshape.k = "datashape" /\ IsDimension(dshape.parameters[1])
                      THEN MeasureOf(dshape) ELSE dshape
                sql_schema == dshape_to_schema(ds)
            IN  IF sql_schema.ok
                THEN RegisterAs("rdd_to_sqlcontext", ctx, name, sql_schema.val)
                ELSE Raised("rdd_to_sqlcontext", name)
    /\ UNCHANGED <<shapeVars, kdbVars, layoutVars>>

NextAppend ==
    \/ \E ctx \in Contexts, dshape \in DshapeArgs, name \in NameArgs, schema \in SchemaArgs :
          JsonlinesToSparksql(ctx, dshape, name, schema)
    \/ \E ctx \in Contexts, dshape \in DshapeArgs, name \in NameArgs :
          RddToSqlcontext(ctx, dshape, name)

(***************************************************************************)
(* The specifications: one per component, the others idle.                 *)
(***************************************************************************)
IdleShape ==
    /\ pc = "idle"
    /\ op = "none"
    /\ arg = NoVal
    /\ res = Err("none")
    /\ res2 = Err("none")

InitShape == StartShape /\ IdleKdb /\ IdleLayout /\ IdleAppend

SpecShape == InitShape /\ [][NextShape]_vars

InitTables == IdleShape /\ StartKdb /\ IdleLayout /\ IdleAppend

SpecTables == InitTables /\ [][NextTables]_vars

InitLayout == IdleShape /\ IdleKdb /\ StartLayout /\ IdleAppend

SpecLayout == InitLayout /\ [][NextLayout]_vars

InitAppend == IdleShape /\ IdleKdb /\ IdleLayout /\ IdleAppend

SpecAppend == InitAppend /\ [][NextAppend]_vars


(***************************************************************************)
(* Properties of the conversions (checked under SpecShape).                *)
(***************************************************************************)
RepresentableField(t) ==
    \/ t.k = "scalar" /\ t.name \in ClaimScalars
    \/ t.k = "option" /\ t.ty.k = "scalar" /\ t.ty.name \in ClaimScalars

RepresentableRecord(x) ==
    x.k = "record" /\ \A i \in 1..Len(x.fields) : RepresentableField(x.fields[i][2])

\* equality of shapes up to the one-parameter DataShape that dshape() wraps around a measure
StructurallyEqual(a, b) == Launder(a) = Launder(b)

Converted == op = "dshape_to_schema" /\ pc \in {"converted", "roundtrip"}

\* C1: for every record R whose fields are representable scalars, plain or
\* optional, dshape_to_schema(R) succeeds and schema_to_dshape of the result
\* succeeds and is structurally equal to R.
C1_RoundTrip ==
    (Converted /\ RepresentableRecord(arg)) =>
        /\ res.ok
        /\ pc = "roundtrip" => res2.ok /\ StructurallyEqual(res2.val, arg)

\* C1, the part the code satisfies: the round trip of a record none of whose
\* fields is int8 or bytes (the two scalars dshape_to_sparksql has no entry for).
MappedRecord(x) ==
    /\ RepresentableRecord(x)
    /\ \A i \in 1..Len(x.fields) :
          LET t == x.fields[i][2]
          IN  (IF t.k = "option" THEN t.ty.name ELSE t.name) \notin {"int8", "bytes"}

C1_RoundTripOfMapped ==
    (Converted /\ MappedRecord(arg)) =>
        /\ res.ok
        /\ pc = "roundtrip" => res2.ok /\ StructurallyEqual(res2.val, arg)

\* C2: deoption is idempotent: deoption(deoption(S)) = deoption(S) for every S.
C2_DeoptionIdempotent == pc = "deoptioned2" => res2.val = res.val

\* C2, the part the code satisfies: deoption(deoption(S)) = deoption(S)
\* whenever deoption(S) is not itself an optional.
C2_IdempotentUnlessNested ==
    (pc = "deoptioned2" /\ res.val.k # "option") => res2.val = res.val

RECURSIVE HasTuple(_)
HasTuple(x) ==
    \/ x.k = "tuple"
    \/ x.k = "str" /\ HasTuple(x.parsed)
    \/ x.k = "option" /\ HasTuple(x.ty)
    \/ x.k = "record" /\ \E i \in 1..Len(x.fields) : HasTuple(x.fields[i][2])
    \/ x.k = "datashape" /\ HasTuple(x.parameters[Len(x.parameters)])

\* C5: dshape_to_schema of a shape that is a tuple, or holds one behind a
\* DataShape, an optional, a record field or an array element, raises an
\* error and yields no schema.
C5_TupleRejected ==
    (Converted /\ HasTuple(arg)) => ~res.ok /\ res.val = NoVal /\ res.err \in {"TypeError", "NotImplementedError"}

C5_Witness ==
    /\ pc = "converted"
    /\ arg.k = "record"
    /\ Len(arg.fields) = 2
    /\ arg.fields[1][2] = Scalar("int32")
    /\ arg.fields[2][2].k = "tuple"
    /\ res = Err("TypeError")

\* the record a shape argument stands for, if it is one (a record, or a
\* string or one-parameter DataShape holding one)
Unwrapped(x) == Launder(IF x.k = "str" THEN x.parsed ELSE x)

StripOption(t) == IF t.k = "option" THEN t.ty ELSE t

\* C6: dshape_to_schema of a record returns exactly when the conversion of
\* every entry's type, its optional wrapper stripped, returns; it then returns
\* a struct with one field per record entry, in order and with the same names;
\* a field's type is that conversion and its nullable flag tells whether the
\* entry's type was optional.
\* {name: string, amount: ?int32} gives [(name, string, false), (amount, int32, true)].
C6_RecordToStruct ==
    (Converted /\ Unwrapped(arg).k = "record") =>
        LET r == Unwrapped(arg)
        IN  /\ res.ok = (\A i \in 1..Len(r.fields) : dshape_to_schema(StripOption(r.fields[i][2])).ok)
            /\ res.ok =>
                /\ res.val.k = "StructType"
                /\ Len(res.val.fields) = Len(r.fields)
                /\ \A i \in 1..Len(r.fields) :
                      /\ res.val.fields[i].name = r.fields[i][1]
                      /\ res.val.fields[i].nullable = (r.fields[i][2].k = "option")
                      /\ res.val.fields[i].dataType = dshape_to_schema(StripOption(r.fields[i][2])).val
            /\ r = ExampleRecord => res = Ok(ExampleStruct)

C6_Witness == pc = "converted" /\ arg = ExampleRecord /\ res = Ok(ExampleStruct)

RECURSIVE Arrays(_, _, _)
Arrays(n, t, cn) == IF n = 1 THEN ArrayType(t, cn) ELSE ArrayType(Arrays(n - 1, t, cn), FALSE)

Dims(x) == Len(x.parameters) - 1

Measure(x) == x.parameters[Len(x.parameters)]

IsDimensional(x) == x.k = "datashape" /\ IsDimension(x.parameters[1])

ArgShape == IF arg.k = "str" THEN arg.parsed ELSE arg

\* C9: dshape_to_schema of a dimensional shape returns exactly when the
\* conversion of the element shape, its optional wrapper stripped, returns; it
\* then returns one array level per dimension, the innermost element type is
\* that conversion and containsNull tells whether the element shape was
\* optional.  One dimension over a scalar gives a one-level array; the
\* docstring's examples hold.
C9_DimensionToArray ==
    (Converted /\ IsDimensional(ArgShape)) =>
        LET d == ArgShape
            m == Measure(d)
        IN  /\ res.ok = dshape_to_schema(StripOption(m)).ok
            /\ res.ok =>
                /\ res.val = Arrays(Dims(d), dshape_to_schema(StripOption(m)).val, m.k = "option")
                /\ (Dims(d) = 1 /\ StripOption(m).k = "scalar") => res.val.elementType.k = "leaf"
            /\ d = DataShape(<<Fixed(5), Scalar("int32")>>) => res = Ok(ArrayType(Leaf("IntegerType"), FALSE))
            /\ d = DataShape(<<Fixed(5), Option(Scalar("int32"))>>) => res = Ok(ArrayType(Leaf("IntegerType"), TRUE))
            /\ d = DataShape(<<Fixed(10), ExampleRecord>>) => res = Ok(ArrayType(ExampleStruct, FALSE))

C9_Witness ==
    /\ pc = "converted"
    /\ arg = DataShape(<<Fixed(5), Option(Scalar("int32"))>>)
    /\ res = Ok(ArrayType(Leaf("IntegerType"), TRUE))

(***************************************************************************)
(* Properties of tables(kdb) (checked under SpecTables).                   *)
(***************************************************************************)
Enumeration ==
    {"b", "x", "h", "i", "j", "e", "f", "c", "s", "m", "d", "z", "p", "u", "v", "n", "t", ""}

\* the code is in the enumeration once lowercased, or is a missing marker
InEnumeration(c) ==
    \/ c \in Enumeration
    \/ c = NaN
    \/ \E e \in Enumeration : <<c, e>> \in UpperLower

Codes(conn) == {conn[i].meta[j].t : <<i, j>> \in {p \in (1..Len(conn)) \X (1..MaxCols) : p[2] <= Len(conn[p[1]].meta)}}

\* the type tables() gave column j of table i
ColumnType(i, j) == tabs.val[i][2].dshape.parameters[2].fields[j][2]

Called == tabs # Err("none")

\* C4: when every code of the store is in the enumeration (after lowercasing,
\* a missing marker counting as ''), tables() returns and every column has the
\* one type of its code ('j' int64, '' and a missing marker null); when some
\* code is outside the enumeration, tables() as a whole fails with KeyError.
C4_CodeMappingTotal ==
    Called =>
        /\ (\A c \in Codes(kdb) : InEnumeration(c)) =>
              /\ tabs.ok
              /\ \A i \in 1..Len(kdb) : \A j \in 1..Len(kdb[i].meta) :
                    LET c == kdb[i].meta[j].t
                    IN  /\ \E ty \in {p[2] : p \in qtypes} : ColumnType(i, j) = ty
                        /\ c \in {"j", "J"} => ColumnType(i, j) = Scalar("int64")
                        /\ c \in {"", NaN} => ColumnType(i, j) = Scalar("null")
        /\ (\E c \in Codes(kdb) : ~InEnumeration(c)) => tabs = Err("KeyError")

C4_Witness ==
    /\ Len(kdb) = 2
    /\ \A j \in 1..Len(kdb[1].meta) : InEnumeration(kdb[1].meta[j].t)
    /\ kdb[2].meta[1].t = "g"
    /\ tabs = Err("KeyError")

\* C8: when tables() returns, it returns one handle per table of the store,
\* keyed by the table's name, in the store's order; a handle's shape is
\* var * a record of the table's columns, in the store's column order, each
\* typed by the code mapping of its type code.
C8_OneHandlePerTable ==
    (Called /\ tabs.ok) =>
        /\ Len(tabs.val) = Len(kdb)
        /\ \A i \in 1..Len(kdb) :
              /\ tabs.val[i][1] = kdb[i].name
              /\ tabs.val[i][2].name = kdb[i].name
              /\ tabs.val[i][2].dshape.k = "datashape"
              /\ Len(tabs.val[i][2].dshape.parameters) = 2
              /\ tabs.val[i][2].dshape.parameters[1] = Var
              /\ tabs.val[i][2].dshape.parameters[2].k = "record"
              /\ Len(tabs.val[i][2].dshape.parameters[2].fields) = Len(kdb[i].meta)
              /\ \A j \in 1..Len(kdb[i].meta) :
                    /\ tabs.val[i][2].dshape.parameters[2].fields[j][1] = kdb[i].meta[j].c
                    /\ ColumnType(i, j) = CodeToShape(kdb[i].meta[j].t).val

C8_Witness ==
    /\ Called /\ tabs.ok
    /\ Len(kdb) = 2
    /\ kdb[1].name = "trade" /\ kdb[2].name = "quote"
    /\ Len(kdb[1].meta) = 2
    /\ tabs.val[1][1] = "trade" /\ tabs.val[2][1] = "quote"

(***************************************************************************)
(* Properties of the layout tests (checked under SpecLayout).              *)
(***************************************************************************)
ValidAnswer(v) == v \in {PyBool(TRUE), PyBool(FALSE), PyInteger(0)}

AllAnswered == cls.is_partitioned # Unset /\ cls.is_splayed # Unset /\ cls.is_standard # Unset

\* C3: for a valid answer of the partition query (true, false or zero) exactly
\* one of is_partitioned, is_splayed and is_standard returns true: the first
\* for true, the second for false, the third for zero.
C3_ExactlyOneLayout ==
    (AllAnswered /\ ValidAnswer(target.answer)) =>
        /\ cls.is_partitioned = Ok(PyBool(target.answer = PyBool(TRUE)))
        /\ cls.is_splayed = Ok(PyBool(target.answer = PyBool(FALSE)))
        /\ cls.is_standard = Ok(PyBool(target.answer = PyInteger(0)))

\* C3, the part the code satisfies: a table is never both partitioned and
\* splayed, nor both partitioned and standard.
C3_PartitionedExcludesOthers ==
    (AllAnswered /\ cls.is_partitioned = Ok(PyBool(TRUE))) =>
        cls.is_splayed = Ok(PyBool(FALSE)) /\ cls.is_standard = Ok(PyBool(FALSE))

\* C7: for any answer other than true, false or zero, each of is_partitioned,
\* is_splayed and is_standard fails with an error and returns no classification.
C7_InvalidAnswerFails ==
    ~ValidAnswer(target.answer) =>
        /\ cls.is_partitioned # Unset => ~cls.is_partitioned.ok
        /\ cls.is_splayed # Unset => ~cls.is_splayed.ok
        /\ cls.is_standard # Unset => ~cls.is_standard.ok

(***************************************************************************)
(* Properties of the generated table names (checked under SpecAppend).     *)
(***************************************************************************)
\* C10: the appends made without a name (name None or empty) register under
\* tmp0, tmp1, ... in turn, whichever of the two operations makes them: no two
\* of them get the same name; the one counter never decreases and moves only
\* on an append made without a name.
C10_GeneratedNamesUnique ==
    /\ \A i, j \in 1..Len(generated) : generated[i].name = generated[j].name => i = j
    /\ \A i \in 1..Len(generated) : generated[i].name = "tmp" \o ToString(i - 1)
    /\ names_next = Len(generated)
    /\ names_next >= last.before
    /\ names_next # last.before => (~last.named /\ last.ok /\ names_next = last.before + 1)
    /\ (last.ok /\ ~last.named) =>
          \E c \in Contexts : \E p \in registered[c] : p[1] = generated[Len(generated)].name

C10_Witness ==
    /\ Len(generated) = 3
    /\ generated[1].op = "jsonlines_to_sparksql"
    /\ generated[2].op = "rdd_to_sqlcontext"
    /\ last.named /\ last.ok
    /\ \E p \in registered["ctx1"] : p[1] = "tmp0"
    /\ \E p \in registered["ctx2"] : p[1] = "tmp1"

====
